---- MODULE Spec2Model ----
(***************************************************************************)
(* Model of pokernow_analyzer/analyze.py: the per-hand betting state       *)
(* machine and the cross-hand aggregator of analyze_all_stats.             *)
(*                                                                         *)
(* A log line ("entry") is modelled by its kind, the quoted player token   *)
(* it carries and its amount text.  A token "name @ id" is the pair        *)
(* <<name, id>>; a display name is the 1-tuple <<name>>.  Amounts are      *)
(* integers (cents); an amount text is [cents, dotted], and the source's   *)
(* pattern [0-9]+\.[0-9]+ matches exactly the dotted ones.                 *)
(*                                                                         *)
(* g holds the counters that live across hands (analyze.py 73-137), h the  *)
(* per-hand trackers (analyze.py 146-217).  Python's defaultdicts are      *)
(* total functions with the default value: a key that holds the default    *)
(* contributes nothing to any tally, so key existence is not observable.   *)
(***************************************************************************)
EXTENDS Integers, Sequences, FiniteSets, TLC

\* ---- bounds of the model ----
\* player decisions (fold, check, call, bet, raise) in the whole log
MaxActions == 10
\* lines in the whole log, when the log is any sequence of lines
MaxLines == 4
\* rows of the data frame split_into_hands is given
MaxRows == 4

\* ---- the input alphabet ----
None == <<>>
Tokens == {<<"A", "x1">>, <<"B", "x2">>, <<"C", "x3">>}
Names == {<<"A">>, <<"B">>, <<"C">>}
Keys == Names \cup Tokens
PostflopStreets == {"flop", "turn", "river"}

\* re.search(r'"([^"]+?) @ [^"]+"', entry): the display name, id dropped.
extract_player_name(tok) == IF tok = None THEN None ELSE <<tok[1]>>

\* re.search(r"([0-9]+\.[0-9]+)", ...): whether the amount text matches.
AmountMatches(txt) == txt.dotted

\* float(m.group(1))
AmountOf(txt) == txt.cents

B2N(b) == IF b THEN 1 ELSE 0

Max0(x) == IF x > 0 THEN x ELSE 0

FalseMap == [n \in Names |-> FALSE]
ZeroMap == [n \in Names |-> 0]
ZeroKeyMap == [k \in Keys |-> 0]
StreetFlags == [s \in PostflopStreets |-> FalseMap]

\* The per-hand trackers as set up at the top of the hand loop.
NewHand ==
  [ total_contrib |-> ZeroKeyMap, invested |-> ZeroKeyMap, collected |-> ZeroMap,
    active |-> {}, saw_preflop |-> FalseMap,
    vpip_this |-> FalseMap, pfr_this |-> FalseMap,
    open_raise_this |-> FalseMap, threebet_this |-> FalseMap,
    fourbet_this |-> FalseMap,
    threebet_opp_this |-> FalseMap, fourbet_opp_this |-> FalseMap,
    fold_to_3bet_this |-> FalseMap, fold_to_4bet_this |-> FalseMap,
    saw_flop_this |-> FalseMap, saw_turn_this |-> FalseMap,
    saw_river_this |-> FalseMap,
    flop_fold_to_cbet_this |-> FalseMap, turn_fold_to_cbet_this |-> FalseMap,
    river_fold_to_cbet_this |-> FalseMap,
    aggr_postflop |-> ZeroMap, calls_postflop |-> ZeroMap,
    folds_postflop |-> ZeroMap,
    street |-> "preflop", showdown |-> FALSE,
    preflop_raises_seq |-> <<>>,
    open_raiser |-> None, three_bettor |-> None, four_bettor |-> None,
    preflop_agg |-> None, flop_agg |-> None, turn_agg |-> None,
    flop_cbet_done |-> FALSE, flop_cbet_by |-> None,
    turn_cbet_done |-> FALSE, turn_cbet_by |-> None,
    river_cbet_done |-> FALSE, river_cbet_by |-> None,
    checked_before_bet |-> StreetFlags, faced_bet |-> StreetFlags,
    flop_bet_seen |-> FALSE, turn_bet_seen |-> FALSE, river_bet_seen |-> FALSE,
    has_caller_after_open |-> FALSE,
    \* what the post-processing reads back from the hand's entries
    any_flop |-> FALSE, any_turn |-> FALSE, any_river |-> FALSE,
    shows_map |-> {} ]

\* The global counters as set up before the hand loop.
NewStats ==
  [ hands_played |-> ZeroMap,
    vpip_hands |-> ZeroMap, pfr_hands |-> ZeroMap, open_raise_hands |-> ZeroMap,
    threebet_hands |-> ZeroMap, fourbet_hands |-> ZeroMap,
    threebet_opp |-> ZeroMap, fourbet_opp |-> ZeroMap,
    fold_to_3bet_hands |-> ZeroMap, fold_to_4bet_hands |-> ZeroMap,
    saw_flop_hands |-> ZeroMap, saw_turn_hands |-> ZeroMap,
    saw_river_hands |-> ZeroMap,
    wtsd_hands |-> ZeroMap, wsd_hands |-> ZeroMap, wwsf_hands |-> ZeroMap,
    preflop_agg_flop_opp |-> ZeroMap, flop_cbet_hands |-> ZeroMap,
    flop_cbet_faced_opp |-> ZeroMap, flop_fold_to_cbet_hands |-> ZeroMap,
    turn_cbet_opp |-> ZeroMap, turn_cbet_hands |-> ZeroMap,
    turn_cbet_faced_opp |-> ZeroMap, turn_fold_to_cbet_hands |-> ZeroMap,
    river_cbet_opp |-> ZeroMap, river_cbet_hands |-> ZeroMap,
    river_cbet_faced_opp |-> ZeroMap, river_fold_to_cbet_hands |-> ZeroMap,
    af_aggr |-> ZeroMap, af_calls |-> ZeroMap, af_folds |-> ZeroMap,
    cr_flop |-> ZeroMap, cr_turn |-> ZeroMap, cr_river |-> ZeroMap,
    donk_flop |-> ZeroMap, donk_turn |-> ZeroMap, donk_river |-> ZeroMap,
    limp_hands |-> ZeroMap, call_open_hands |-> ZeroMap,
    squeeze_hands |-> ZeroMap,
    net_profit |-> ZeroKeyMap, sd_profit |-> ZeroKeyMap,
    nonsd_profit |-> ZeroKeyMap ]

\* g, h: the program's counters and per-hand trackers; hand_idx: the hand
\* being processed (enumerate(hands, start=1)); table: the game that writes
\* the log, i.e. the part of the input not yet read.
VARIABLES g, h, hand_idx, table

vars == <<g, h, hand_idx, table>>

\* ---- one entry of the hand loop, as functions of the trackers ----
\* Variant: the flop reference taken from the first preflop raise.
FlopMarkerHandFirstRaiser(hh) ==
  [hh EXCEPT !.street = "flop",
             !.preflop_agg = IF hh.preflop_raises_seq # <<>>
                             THEN hh.preflop_raises_seq[1]
                             ELSE hh.preflop_agg,
             !.saw_flop_this = [n \in Names |-> hh.saw_flop_this[n] \/ n \in hh.active],
             !.any_flop = TRUE]

\* if any(m in entry for m in FLOP_MARKERS): ...
FlopMarkerHand(hh) ==
  [hh EXCEPT !.street = "flop",
             !.preflop_agg = IF hh.preflop_raises_seq # <<>>
                             THEN hh.preflop_raises_seq[Len(hh.preflop_raises_seq)]
                             ELSE hh.preflop_agg,
             !.saw_flop_this = [n \in Names |-> hh.saw_flop_this[n] \/ n \in hh.active],
             !.any_flop = TRUE]

TurnMarkerHand(hh) ==
  [hh EXCEPT !.street = "turn",
             !.saw_turn_this = [n \in Names |-> hh.saw_turn_this[n] \/ n \in hh.active],
             !.any_turn = TRUE]

RiverMarkerHand(hh) ==
  [hh EXCEPT !.street = "river",
             !.saw_river_this = [n \in Names |-> hh.saw_river_this[n] \/ n \in hh.active],
             !.any_river = TRUE]

\* The record an uncalled-bet line names: group(2) of the pattern
\* returned to "([^"]+)", the whole quoted token.
UncalledKey(tok) == tok

\* if entry.startswith("Uncalled bet"): ...
UncalledHand(hh, tok, txt) ==
  IF AmountMatches(txt)
  THEN [hh EXCEPT !.invested[UncalledKey(tok)] = @ - AmountOf(txt),
                  !.total_contrib[UncalledKey(tok)] = @ - AmountOf(txt)]
  ELSE hh

\* Variant: the opportunity goes to whoever faces a 3-bet already made.
ThreeBetOppNowFacing(hh, name) ==
  hh.open_raiser # None /\ hh.three_bettor # None /\ name # hh.three_bettor

\* Whether a preflop line of name is a 3-bet opportunity.
ThreeBetOppNow(hh, name) ==
  hh.open_raiser # None /\ hh.three_bettor = None /\ name # hh.open_raiser

\* Variant: the comparison with the opener turned round.
FourBetOppNowNonOpener(hh, name) ==
  /\ hh.open_raiser # None
  /\ hh.three_bettor # None
  /\ hh.four_bettor = None
  /\ name # hh.open_raiser

\* Whether a preflop line of name is a 4-bet opportunity.
FourBetOppNow(hh, name) ==
  /\ hh.open_raiser # None
  /\ hh.three_bettor # None
  /\ hh.four_bettor = None
  /\ name = hh.open_raiser

\* The players a preflop line adds to the set of dealt-in players.
DealtIn(hh, name) == [hh.saw_preflop EXCEPT ![name] = TRUE]

\* if street == "preflop": presence and 3-bet / 4-bet opportunities
Presence(hh, name) ==
  IF hh.street = "preflop"
  THEN [hh EXCEPT !.saw_preflop = DealtIn(hh, name),
                  !.active = @ \cup {name},
                  !.threebet_opp_this[name] = @ \/ ThreeBetOppNow(hh, name),
                  !.fourbet_opp_this[name] = @ \/ FourBetOppNow(hh, name)]
  ELSE hh
\* Variant: the blind counted as money put in voluntarily.
BlindHandVoluntary(hh, name, txt) ==
  IF AmountMatches(txt)
  THEN [hh EXCEPT !.invested[name] = @ + AmountOf(txt),
                  !.total_contrib[name] = @ + AmountOf(txt),
                  !.vpip_this[name] = TRUE]
  ELSE hh

\* if "posts a small blind" in entry or "posts a big blind" in entry: ...
BlindHand(hh, name, txt) ==
  IF AmountMatches(txt)
  THEN [hh EXCEPT !.invested[name] = @ + AmountOf(txt),
                  !.total_contrib[name] = @ + AmountOf(txt)]
  ELSE hh

\* The set of players still in the hand after name folds.
ActiveAfterFold(hh, name) == hh.active \ {name}
\* Variant: the preflop fold recorded for any player holding the opportunity.
FoldHandAnyOpportunity(hh, name) ==
  IF hh.street = "preflop"
  THEN [hh EXCEPT
          !.fold_to_3bet_this[name] = @ \/ hh.threebet_opp_this[name],
          !.fold_to_4bet_this[name] = @ \/ hh.fourbet_opp_this[name],
          !.active = ActiveAfterFold(hh, name)]
  ELSE [hh EXCEPT
          !.folds_postflop[name] = @ + 1,
          !.flop_fold_to_cbet_this[name] =
             @ \/ (hh.street = "flop" /\ hh.flop_cbet_done),
          !.turn_fold_to_cbet_this[name] =
             @ \/ (hh.street = "turn" /\ hh.turn_cbet_done),
          !.river_fold_to_cbet_this[name] =
             @ \/ (hh.street = "river" /\ hh.river_cbet_done),
          !.active = ActiveAfterFold(hh, name)]

\* if " folds" in entry: ...
FoldHand(hh, name) ==
  IF hh.street = "preflop"
  THEN [hh EXCEPT
          !.fold_to_3bet_this[name] =
             @ \/ (hh.threebet_opp_this[name] /\ ~hh.threebet_this[name]),
          !.fold_to_4bet_this[name] =
             @ \/ (hh.fourbet_opp_this[name] /\ ~hh.fourbet_this[name]),
          !.active = ActiveAfterFold(hh, name)]
  ELSE [hh EXCEPT
          !.folds_postflop[name] = @ + 1,
          !.flop_fold_to_cbet_this[name] =
             @ \/ (hh.street = "flop" /\ hh.flop_cbet_done),
          !.turn_fold_to_cbet_this[name] =
             @ \/ (hh.street = "turn" /\ hh.turn_cbet_done),
          !.river_fold_to_cbet_this[name] =
             @ \/ (hh.street = "river" /\ hh.river_cbet_done),
          !.active = ActiveAfterFold(hh, name)]

\* Call of an open raise: an opener, no 3-bettor yet, caller is not the opener.
IsCallOpen(hh, name) ==
  hh.open_raiser # None /\ hh.three_bettor = None /\ name # hh.open_raiser

\* if " calls " in entry: ... (the per-hand trackers)
CallHand(hh, name, txt) ==
  IF ~AmountMatches(txt) THEN hh
  ELSE LET paid == [hh EXCEPT !.invested[name] = @ + AmountOf(txt),
                              !.total_contrib[name] = @ + AmountOf(txt)]
       IN IF hh.street = "preflop"
          THEN [paid EXCEPT !.vpip_this[name] = TRUE,
                            !.has_caller_after_open = @ \/ IsCallOpen(hh, name)]
          ELSE [paid EXCEPT !.calls_postflop[name] = @ + 1,
                            !.faced_bet[hh.street][name] = TRUE]

\* if " calls " in entry: ... (the counters bumped in place)
CallStats(gg, hh, name, txt) ==
  IF AmountMatches(txt) /\ hh.street = "preflop"
  THEN [gg EXCEPT !.limp_hands[name] = @ + B2N(hh.open_raiser = None),
                  !.call_open_hands[name] = @ + B2N(IsCallOpen(hh, name))]
  ELSE gg

\* if " checks" in entry: ...
CheckHand(hh, name) ==
  IF hh.street \in PostflopStreets
  THEN [hh EXCEPT !.checked_before_bet[hh.street][name] = TRUE]
  ELSE hh

\* everybody else is now "facing a bet" on this street
FacedAfterAggr(hh, street_local, actor) ==
  [p \in Names |-> hh.faced_bet[street_local][p]
                   \/ (p \in hh.active /\ p # actor)]

\* Variant: every bet or raise of the street classified, not the first only.
ClassifiedAnyBet(bet_seen, prev_agg) == prev_agg # None
\* Variant: the first bet of a street classified without a reference player.
ClassifiedNoReference(bet_seen, prev_agg) == ~bet_seen

\* Whether this bet/raise is the one classified as c-bet or donk on the street:
\* the first of the street, with a previous-street aggressor on record.
Classified(bet_seen, prev_agg) == ~bet_seen /\ prev_agg # None

\* handle_postflop_aggr (the per-hand trackers)
HandlePostflopAggrHand(hh, street_local, actor) ==
  LET base == [hh EXCEPT !.aggr_postflop[actor] = @ + 1,
                         !.faced_bet[street_local] =
                            FacedAfterAggr(hh, street_local, actor)]
  IN CASE street_local = "flop" ->
            LET cbet == Classified(hh.flop_bet_seen, hh.preflop_agg)
                        /\ actor = hh.preflop_agg /\ ~hh.flop_cbet_done
            IN [base EXCEPT !.flop_bet_seen = TRUE,
                            !.flop_cbet_done = @ \/ cbet,
                            !.flop_cbet_by = IF cbet THEN actor ELSE @]
       [] street_local = "turn" ->
            LET cbet == Classified(hh.turn_bet_seen, hh.flop_agg)
                        /\ actor = hh.flop_agg /\ ~hh.turn_cbet_done
            IN [base EXCEPT !.turn_bet_seen = TRUE,
                            !.turn_cbet_done = @ \/ cbet,
                            !.turn_cbet_by = IF cbet THEN actor ELSE @]
       [] street_local = "river" ->
            LET cbet == Classified(hh.river_bet_seen, hh.turn_agg)
                        /\ actor = hh.turn_agg /\ ~hh.river_cbet_done
            IN [base EXCEPT !.river_bet_seen = TRUE,
                            !.river_cbet_done = @ \/ cbet,
                            !.river_cbet_by = IF cbet THEN actor ELSE @]
       [] OTHER -> base

\* handle_postflop_aggr (the donk counters bumped in place)
HandlePostflopAggrStats(gg, hh, street_local, actor) ==
  CASE street_local = "flop" ->
         [gg EXCEPT !.donk_flop[actor] =
            @ + B2N(Classified(hh.flop_bet_seen, hh.preflop_agg)
                    /\ actor # hh.preflop_agg)]
    [] street_local = "turn" ->
         [gg EXCEPT !.donk_turn[actor] =
            @ + B2N(Classified(hh.turn_bet_seen, hh.flop_agg)
                    /\ actor # hh.flop_agg)]
    [] street_local = "river" ->
         [gg EXCEPT !.donk_river[actor] =
            @ + B2N(Classified(hh.river_bet_seen, hh.turn_agg)
                    /\ actor # hh.turn_agg)]
    [] OTHER -> gg
\* Variant: the street's first bettor or raiser kept as the reference.
NoteAggressorFirst(hh, name) ==
  CASE hh.street = "flop" /\ hh.flop_agg = None -> [hh EXCEPT !.flop_agg = name]
    [] hh.street = "turn" /\ hh.turn_agg = None -> [hh EXCEPT !.turn_agg = name]
    [] OTHER -> hh

\* The street's last aggressor, kept for the next street:
\* if street == "flop": flop_agg = name / elif street == "turn": turn_agg = name
NoteAggressor(hh, name) ==
  CASE hh.street = "flop" -> [hh EXCEPT !.flop_agg = name]
    [] hh.street = "turn" -> [hh EXCEPT !.turn_agg = name]
    [] OTHER -> hh

\* Variant: the 4-bet slot open to any raiser.
FourBetAllowedAnyone(hh, name) == hh.four_bettor = None

\* elif four_bettor is None and name == open_raiser
FourBetAllowed(hh, name) == hh.four_bettor = None /\ name = hh.open_raiser

\* Variant: the 3-bet slot taken by every raise after the open.
ThreeBetAllowedAlways(hh, name) == TRUE

\* elif three_bettor is None
ThreeBetAllowed(hh, name) == hh.three_bettor = None
\* Variant: every 3-bet by a player other than the opener tagged a squeeze.
IsSqueezeWithoutCaller(hh, name) ==
  hh.open_raiser # None /\ name # hh.open_raiser

\* squeeze: has_caller_after_open and open_raiser is not None and name != open_raiser
IsSqueeze(hh, name) ==
  hh.has_caller_after_open /\ hh.open_raiser # None /\ name # hh.open_raiser
\* Variant: a preflop raise that sets PFR and leaves VPIP alone.
PreflopRaiseHandPfrOnly(hh, name) ==
  LET flagged == [hh EXCEPT !.pfr_this[name] = TRUE,
                            !.preflop_raises_seq = Append(@, name)]
  IN CASE hh.open_raiser = None ->
            [flagged EXCEPT !.open_raiser = name,
                            !.open_raise_this[name] = TRUE]
       [] hh.open_raiser # None /\ ThreeBetAllowed(hh, name) ->
            [flagged EXCEPT !.three_bettor = name,
                            !.threebet_this[name] = TRUE]
       [] hh.open_raiser # None /\ ~ThreeBetAllowed(hh, name)
            /\ FourBetAllowed(hh, name) ->
            [flagged EXCEPT !.four_bettor = name,
                            !.fourbet_this[name] = TRUE]
       [] OTHER -> flagged

\* Variant: a raise that takes no role slot left out of the raise sequence.
PreflopRaiseHandRolesOnly(hh, name) ==
  LET flagged == [hh EXCEPT !.vpip_this[name] = TRUE,
                            !.pfr_this[name] = TRUE]
      raised == [flagged EXCEPT !.preflop_raises_seq = Append(@, name)]
  IN CASE hh.open_raiser = None ->
            [raised EXCEPT !.open_raiser = name,
                           !.open_raise_this[name] = TRUE]
       [] hh.open_raiser # None /\ ThreeBetAllowed(hh, name) ->
            [raised EXCEPT !.three_bettor = name,
                           !.threebet_this[name] = TRUE]
       [] hh.open_raiser # None /\ ~ThreeBetAllowed(hh, name)
            /\ FourBetAllowed(hh, name) ->
            [raised EXCEPT !.four_bettor = name,
                           !.fourbet_this[name] = TRUE]
       [] OTHER -> flagged

\* The preflop branch of a bet or raise: VPIP, PFR and the role slots.
PreflopRaiseHand(hh, name) ==
  LET flagged == [hh EXCEPT !.vpip_this[name] = TRUE,
                            !.pfr_this[name] = TRUE,
                            !.preflop_raises_seq = Append(@, name)]
  IN CASE hh.open_raiser = None ->
            [flagged EXCEPT !.open_raiser = name,
                            !.open_raise_this[name] = TRUE]
       [] hh.open_raiser # None /\ ThreeBetAllowed(hh, name) ->
            [flagged EXCEPT !.three_bettor = name,
                            !.threebet_this[name] = TRUE]
       [] hh.open_raiser # None /\ ~ThreeBetAllowed(hh, name)
            /\ FourBetAllowed(hh, name) ->
            [flagged EXCEPT !.four_bettor = name,
                            !.fourbet_this[name] = TRUE]
       [] OTHER -> flagged

\* The preflop branch of a bet or raise: squeeze_hands bumped in place.
PreflopRaiseStats(gg, hh, name) ==
  [gg EXCEPT !.squeeze_hands[name] =
     @ + B2N(hh.open_raiser # None /\ ThreeBetAllowed(hh, name)
             /\ IsSqueeze(hh, name))]

\* if " bets " in entry: ... (the per-hand trackers)
BetHand(hh, name, txt) ==
  IF ~AmountMatches(txt) THEN hh
  ELSE LET paid == [hh EXCEPT !.invested[name] = @ + AmountOf(txt),
                              !.total_contrib[name] = @ + AmountOf(txt)]
       IN IF hh.street = "preflop"
          THEN PreflopRaiseHand(paid, name)
          ELSE NoteAggressor(HandlePostflopAggrHand(paid, hh.street, name), name)

\* if " bets " in entry: ... (the counters bumped in place)
BetStats(gg, hh, name, txt) ==
  IF ~AmountMatches(txt) THEN gg
  ELSE IF hh.street = "preflop"
       THEN PreflopRaiseStats(gg, hh, name)
       ELSE HandlePostflopAggrStats(gg, hh, hh.street, name)

\* delta = max(0.0, to_amt - total_contrib[name])
RaiseDelta(hh, name, to_amt) == Max0(to_amt - hh.total_contrib[name])

\* if checked_before_bet[street][name] and faced_bet[street][name]
IsCheckRaise(hh, name) ==
  hh.checked_before_bet[hh.street][name] /\ hh.faced_bet[hh.street][name]

\* if " raises to " in entry: ... (the per-hand trackers)
RaiseHand(hh, name, txt) ==
  IF ~AmountMatches(txt) THEN hh
  ELSE LET paid == [hh EXCEPT
                      !.invested[name] = @ + RaiseDelta(hh, name, AmountOf(txt)),
                      !.total_contrib[name] = @ + RaiseDelta(hh, name, AmountOf(txt))]
       IN IF hh.street = "preflop"
          THEN PreflopRaiseHand(paid, name)
          ELSE NoteAggressor(HandlePostflopAggrHand(paid, hh.street, name), name)

\* The check-raise counters: cr_flop / cr_turn / cr_river bumped in place.
CheckRaiseStats(gg, hh, name) ==
  IF ~IsCheckRaise(hh, name) THEN gg
  ELSE CASE hh.street = "flop" -> [gg EXCEPT !.cr_flop[name] = @ + 1]
         [] hh.street = "turn" -> [gg EXCEPT !.cr_turn[name] = @ + 1]
         [] hh.street = "river" -> [gg EXCEPT !.cr_river[name] = @ + 1]
         [] OTHER -> gg

\* if " raises to " in entry: ... (the counters bumped in place)
RaiseStats(gg, hh, name, txt) ==
  IF ~AmountMatches(txt) THEN gg
  ELSE IF hh.street = "preflop"
       THEN PreflopRaiseStats(gg, hh, name)
       ELSE HandlePostflopAggrStats(CheckRaiseStats(gg, hh, name), hh, hh.street, name)

\* if " collected " in entry and "from pot" in entry: ...
CollectedHand(hh, name, txt) ==
  IF AmountMatches(txt)
  THEN [hh EXCEPT !.collected[name] = @ + AmountOf(txt)]
  ELSE hh

\* if "shows a " in entry: showdown = True; the post-processing reads the
\* names of these lines back into shows_map.
ShowsHand(hh, name) ==
  [hh EXCEPT !.showdown = TRUE,
             !.shows_map = IF name # None THEN @ \cup {name} ELSE @]

\* ---- per-hand post-processing: the hand folded into the counters ----

\* collected[n] for any record of all_names (a defaultdict(float))
CollectedOf(hh, k) == IF k \in Names THEN hh.collected[k] ELSE 0

\* delta = collected[n] - invested[n]
HandNet(hh, k) == CollectedOf(hh, k) - hh.invested[k]
\* Variant: every player of a hand with a show line put in the showdown split.
WentToShowdownWholeHand(hh, k) == hh.showdown

\* showdown and shows_map.get(n, False)
WentToShowdown(hh, k) == hh.showdown /\ k \in hh.shows_map

\* collected[n] > 0 and saw_flop_this[n]
WonWhenSawFlop(hh, n) == hh.collected[n] > 0 /\ hh.saw_flop_this[n]

\* Variant: a hand counted only for a player who put chips in voluntarily.
CountsAsPlayedVoluntary(hh, n) == hh.vpip_this[n]

\* if saw_preflop[n]: hands_played[n] += 1
CountsAsPlayed(hh, n) == hh.saw_preflop[n]

\* The c-bet opportunity of a street: the street was dealt, a previous-street
\* aggressor is on record and saw the street.
CbetOpp(any_street, agg, saw_this) ==
  any_street /\ agg # None /\ saw_this[agg]

\* Variant: the c-bet counted outside the opportunity branch.
CbetMadeUnguarded(any_street, agg, saw_this, done, by) == done /\ by = agg

\* The c-bet made on a street: counted inside the opportunity branch only.
CbetMade(any_street, agg, saw_this, done, by) ==
  CbetOpp(any_street, agg, saw_this) /\ done /\ by = agg

\* A player who faced the street's c-bet.
CbetFaced(done, by, saw_this, n) == done /\ n # by /\ saw_this[n]

Tally(gg, hh) ==
  LET pre(flag) == [n \in Names |-> hh.saw_preflop[n] /\ flag[n]]
      add(counter, flag) == [n \in Names |-> counter[n] + B2N(flag[n])]
      sum(counter, amount) == [n \in Names |-> counter[n] + amount[n]]
      bump(counter, cond(_)) == [n \in Names |-> counter[n] + B2N(cond(n))]
      flopOpp(n) == CbetOpp(hh.any_flop, hh.preflop_agg, hh.saw_flop_this)
                    /\ n = hh.preflop_agg
      flopMade(n) == CbetMade(hh.any_flop, hh.preflop_agg, hh.saw_flop_this,
                              hh.flop_cbet_done, hh.flop_cbet_by)
                     /\ n = hh.preflop_agg
      flopFaced(n) == CbetFaced(hh.flop_cbet_done, hh.flop_cbet_by,
                                hh.saw_flop_this, n)
      flopFolded(n) == flopFaced(n) /\ hh.flop_fold_to_cbet_this[n]
      turnOpp(n) == CbetOpp(hh.any_turn, hh.flop_agg, hh.saw_turn_this)
                    /\ n = hh.flop_agg
      turnMade(n) == CbetMade(hh.any_turn, hh.flop_agg, hh.saw_turn_this,
                              hh.turn_cbet_done, hh.turn_cbet_by)
                     /\ n = hh.flop_agg
      turnFaced(n) == CbetFaced(hh.turn_cbet_done, hh.turn_cbet_by,
                                hh.saw_turn_this, n)
      turnFolded(n) == turnFaced(n) /\ hh.turn_fold_to_cbet_this[n]
      riverOpp(n) == CbetOpp(hh.any_river, hh.turn_agg, hh.saw_river_this)
                     /\ n = hh.turn_agg
      riverMade(n) == CbetMade(hh.any_river, hh.turn_agg, hh.saw_river_this,
                               hh.river_cbet_done, hh.river_cbet_by)
                      /\ n = hh.turn_agg
      riverFaced(n) == CbetFaced(hh.river_cbet_done, hh.river_cbet_by,
                                 hh.saw_river_this, n)
      riverFolded(n) == riverFaced(n) /\ hh.river_fold_to_cbet_this[n]
      played(n) == CountsAsPlayed(hh, n)
      wtsd(n) == WentToShowdown(hh, n)
      wsd(n) == WentToShowdown(hh, n) /\ hh.collected[n] > 0
      wwsf(n) == WonWhenSawFlop(hh, n)
  IN [gg EXCEPT
        !.hands_played = bump(@, played),
        !.saw_flop_hands = add(@, hh.saw_flop_this),
        !.saw_turn_hands = add(@, hh.saw_turn_this),
        !.saw_river_hands = add(@, hh.saw_river_this),
        !.net_profit = [k \in Keys |-> @[k] + HandNet(hh, k)],
        !.sd_profit = [k \in Keys |->
            @[k] + (IF WentToShowdown(hh, k) THEN HandNet(hh, k) ELSE 0)],
        !.nonsd_profit = [k \in Keys |->
            @[k] + (IF WentToShowdown(hh, k) THEN 0 ELSE HandNet(hh, k))],
        !.af_aggr = sum(@, hh.aggr_postflop),
        !.af_calls = sum(@, hh.calls_postflop),
        !.af_folds = sum(@, hh.folds_postflop),
        !.wtsd_hands = bump(@, wtsd),
        !.wsd_hands = bump(@, wsd),
        !.wwsf_hands = bump(@, wwsf),
        !.vpip_hands = add(@, pre(hh.vpip_this)),
        !.pfr_hands = add(@, pre(hh.pfr_this)),
        !.open_raise_hands = add(@, pre(hh.open_raise_this)),
        !.threebet_hands = add(@, pre(hh.threebet_this)),
        !.fourbet_hands = add(@, pre(hh.fourbet_this)),
        !.threebet_opp = add(@, pre(hh.threebet_opp_this)),
        !.fourbet_opp = add(@, pre(hh.fourbet_opp_this)),
        !.fold_to_3bet_hands = add(@, pre(hh.fold_to_3bet_this)),
        !.fold_to_4bet_hands = add(@, pre(hh.fold_to_4bet_this)),
        !.preflop_agg_flop_opp = bump(@, flopOpp),
        !.flop_cbet_hands = bump(@, flopMade),
        !.flop_cbet_faced_opp = bump(@, flopFaced),
        !.flop_fold_to_cbet_hands = bump(@, flopFolded),
        !.turn_cbet_opp = bump(@, turnOpp),
        !.turn_cbet_hands = bump(@, turnMade),
        !.turn_cbet_faced_opp = bump(@, turnFaced),
        !.turn_fold_to_cbet_hands = bump(@, turnFolded),
        !.river_cbet_opp = bump(@, riverOpp),
        !.river_cbet_hands = bump(@, riverMade),
        !.river_cbet_faced_opp = bump(@, riverFaced),
        !.river_fold_to_cbet_hands = bump(@, riverFolded)]

\* ---- the hand loop: one entry processed ----

\* for hand_idx, hand in enumerate(hands, start=1): for entry in hand: ...
Step(hh, gg) ==
  /\ h' = hh
  /\ g' = gg
  /\ UNCHANGED hand_idx

ReadFlopMarker == Step(FlopMarkerHand(h), g)

ReadTurnMarker == Step(TurnMarkerHand(h), g)

ReadRiverMarker == Step(RiverMarkerHand(h), g)

ReadUncalled(tok, txt) == Step(UncalledHand(h, tok, txt), g)

\* A line with no quoted player token: name is None, the entry is skipped.
ReadUnnamed == Step(h, g)

\* A line with a player token and none of the action words (the hand-start
\* line naming the dealer): presence only.
ReadOtherNamed(tok) == Step(Presence(h, extract_player_name(tok)), g)

ReadShows(tok) ==
  LET name == extract_player_name(tok)
  IN Step(Presence(ShowsHand(h, name), name), g)

ReadBlind(tok, txt) ==
  LET name == extract_player_name(tok)
  IN Step(BlindHand(Presence(h, name), name, txt), g)

ReadFold(tok) ==
  LET name == extract_player_name(tok)
  IN Step(FoldHand(Presence(h, name), name), g)

ReadCall(tok, txt) ==
  LET name == extract_player_name(tok)
      hp == Presence(h, name)
  IN Step(CallHand(hp, name, txt), CallStats(g, hp, name, txt))

ReadCheck(tok) ==
  LET name == extract_player_name(tok)
  IN Step(CheckHand(Presence(h, name), name), g)

ReadBet(tok, txt) ==
  LET name == extract_player_name(tok)
      hp == Presence(h, name)
  IN Step(BetHand(hp, name, txt), BetStats(g, hp, name, txt))

ReadRaise(tok, txt) ==
  LET name == extract_player_name(tok)
      hp == Presence(h, name)
  IN Step(RaiseHand(hp, name, txt), RaiseStats(g, hp, name, txt))

ReadCollected(tok, txt) ==
  LET name == extract_player_name(tok)
  IN Step(CollectedHand(Presence(h, name), name, txt), g)

\* The end of the hand's entries: the post-processing, then the next hand's
\* trackers.
FinishHand ==
  /\ g' = Tally(g, h)
  /\ h' = NewHand
  /\ hand_idx' = hand_idx + 1

\* ---- the game that writes the log ----
\* The hands are those of a three-handed no-limit table without rake or
\* all-ins, as PokerNow logs them: the hand-start line naming the dealer, the
\* two blinds, the players acting in turn, a street line once a betting round
\* is closed, and at the end the uncalled part of the last bet returned, the
\* cards shown, and the pot collected by one winner.  "calls" and "bets" carry
\* the chips added, "raises to" the player's new total on the street.

Seats == << <<"A">>, <<"B">>, <<"C">> >>

SeatOf(n) == CHOOSE i \in 1..Len(Seats) : Seats[i] = n

NextSeat(n) == Seats[(SeatOf(n) % Len(Seats)) + 1]

\* The quoted token "name @ id" of a player's lines.
TokenOf(n) == CHOOSE t \in Tokens : extract_player_name(t) = n

\* An amount as the log prints it, with a decimal point.
Decimal(c) == [cents |-> c, dotted |-> TRUE]

\* One line of the log: its kind (the pattern of the hand loop it matches),
\* the quoted player token it carries and its amount.
Entry(kind, tok, cents) == [kind |-> kind, tok |-> tok, cents |-> cents]

Blinds == [small |-> 1, big |-> 2]
BetSizes == {2}
RaiseSizes == {2}

RECURSIVE SumOver(_, _)
SumOver(f, S) ==
  IF S = {} THEN 0
  ELSE LET k == CHOOSE x \in S : TRUE IN f[k] + SumOver(f, S \ {k})

MaxOver(f, S) ==
  IF S = {} THEN 0 ELSE CHOOSE v \in {f[k] : k \in S} : \A k \in S : f[k] <= v

\* Seats from p round the table to q, p itself last.
Dist(p, q) ==
  LET d == (SeatOf(q) - SeatOf(p)) % Len(Seats)
  IN IF d = 0 THEN Len(Seats) ELSE d

NextToAct(p, pend) ==
  IF pend = {} THEN None
  ELSE CHOOSE q \in pend : \A r \in pend : Dist(p, q) <= Dist(p, r)

NewTable ==
  [ stage |-> "start", dealer |-> None, street |-> "preflop",
    bet |-> ZeroMap, paid |-> ZeroMap,
    live |-> {}, pending |-> {}, toact |-> None,
    shown |-> {}, acts |-> 0, log |-> <<>>,
    \* the whole log: whether its amounts are printed with a decimal point,
    \* and the hands already ended
    dotted |-> TRUE, hands |-> <<>> ]

\* The table cleared for the next hand of the same log.
Cleared(t) ==
  [NewTable EXCEPT !.acts = t.acts, !.dotted = t.dotted, !.hands = t.hands]

\* An amount as this log prints it.
Printed(c) == [cents |-> c, dotted |-> table.dotted]

\* The highest bet of the street.
Level == MaxOver(table.bet, Names)

\* The chips in the pot.
Pot == SumOver(table.paid, Names)

\* The table after player p has acted.
Settle(t, p) ==
  IF Cardinality(t.live) = 1
  THEN LET w == CHOOSE n \in t.live : TRUE
           excess == t.bet[w] - MaxOver(t.bet, Names \ {w})
       IN [t EXCEPT !.stage = IF excess > 0 THEN "return" ELSE "collect",
                    !.pending = {}, !.toact = None]
  ELSE IF t.pending = {}
       THEN [t EXCEPT !.stage = IF t.street = "river" THEN "showdown" ELSE "deal",
                      !.toact = None]
       ELSE [t EXCEPT !.toact = NextToAct(p, t.pending)]

\* A player to act, and a decision left in the log.
CanAct == table.stage = "play" /\ table.acts < MaxActions

Acted(t) == [t EXCEPT !.acts = @ + 1]

\* The table with one more line in the hand's log.
Logged(t, kind, p, cents) ==
  [t EXCEPT !.log = Append(@, Entry(kind, IF p = None THEN None ELSE TokenOf(p), cents))]

\* The button moves one seat each hand.
Button == Seats[((hand_idx - 1) % Len(Seats)) + 1]

Pays(t, p, chips) ==
  [t EXCEPT !.bet[p] = @ + chips, !.paid[p] = @ + chips]

HandStarts ==
  /\ table.stage = "start"
  /\ LET d == Button
     IN /\ ReadOtherNamed(TokenOf(d))
        /\ table' = Logged([Cleared(table) EXCEPT !.stage = "sb", !.dealer = d,
                                                  !.live = Names],
                            "start", d, 0)

PostsSmallBlind ==
  /\ table.stage = "sb"
  /\ LET p == NextSeat(table.dealer)
     IN /\ ReadBlind(TokenOf(p), Printed(Blinds.small))
        /\ table' = Logged([Pays(table, p, Blinds.small) EXCEPT !.stage = "bb"],
                            "blind", p, Blinds.small)

PostsBigBlind ==
  /\ table.stage = "bb"
  /\ LET p == NextSeat(NextSeat(table.dealer))
     IN /\ ReadBlind(TokenOf(p), Printed(Blinds.big))
        /\ table' = Logged([Pays(table, p, Blinds.big) EXCEPT
                              !.stage = "play", !.pending = table.live,
                              !.toact = NextToAct(p, table.live)],
                            "blind", p, Blinds.big)

PlayerFolds ==
  /\ CanAct
  /\ LET p == table.toact
     IN /\ table.bet[p] < Level
        /\ ReadFold(TokenOf(p))
        /\ table' = Settle([Logged(Acted(table), "fold", p, 0) EXCEPT
                              !.live = @ \ {p}, !.pending = @ \ {p}], p)

PlayerChecks ==
  /\ CanAct
  /\ LET p == table.toact
     IN /\ table.bet[p] = Level
        /\ ReadCheck(TokenOf(p))
        /\ table' = Settle([Logged(Acted(table), "check", p, 0) EXCEPT
                              !.pending = @ \ {p}], p)

PlayerCalls ==
  /\ CanAct
  /\ LET p == table.toact
         chips == Level - table.bet[p]
     IN /\ chips > 0
        /\ ReadCall(TokenOf(p), Printed(chips))
        /\ table' = Settle([Pays(Logged(Acted(table), "call", p, chips), p, chips)
                              EXCEPT !.pending = @ \ {p}], p)

PlayerBets ==
  /\ CanAct
  /\ Level = 0
  /\ LET p == table.toact
     IN \E chips \in BetSizes :
          /\ ReadBet(TokenOf(p), Printed(chips))
          /\ table' = Settle([Pays(Logged(Acted(table), "bet", p, chips), p, chips)
                                EXCEPT !.pending = table.live \ {p}], p)

PlayerRaises ==
  /\ CanAct
  /\ Level > 0
  /\ LET p == table.toact
     IN \E by \in RaiseSizes :
          LET to == Level + by
          IN /\ ReadRaise(TokenOf(p), Printed(to))
             /\ table' = Settle([Pays(Logged(Acted(table), "raise", p, to),
                                        p, to - table.bet[p])
                                   EXCEPT !.pending = table.live \ {p}], p)

\* The next street's line, once the betting round is closed.
NextStreet(t, street) ==
  [Logged(t, street, None, 0) EXCEPT
     !.stage = "play", !.street = street, !.bet = ZeroMap,
     !.pending = t.live, !.toact = NextToAct(t.dealer, t.live)]

DealsStreet ==
  /\ table.stage = "deal"
  /\ \/ /\ table.street = "preflop"
        /\ ReadFlopMarker
        /\ table' = NextStreet(table, "flop")
     \/ /\ table.street = "flop"
        /\ ReadTurnMarker
        /\ table' = NextStreet(table, "turn")
     \/ /\ table.street = "turn"
        /\ ReadRiverMarker
        /\ table' = NextStreet(table, "river")

ReturnsUncalled ==
  /\ table.stage = "return"
  /\ LET w == CHOOSE n \in table.live : TRUE
         excess == table.bet[w] - MaxOver(table.bet, Names \ {w})
     IN /\ ReadUncalled(TokenOf(w), Printed(excess))
        /\ table' = [Pays(Logged(table, "uncalled", w, excess), w, 0 - excess)
                        EXCEPT !.stage = "collect"]

ShowsCards ==
  /\ table.stage = "showdown"
  /\ LET p == NextToAct(table.dealer, table.live \ table.shown)
     IN /\ ReadShows(TokenOf(p))
        /\ table' = [Logged(table, "shows", p, 0) EXCEPT
                       !.shown = @ \cup {p},
                       !.stage = IF table.shown \cup {p} = table.live
                                 THEN "collect" ELSE @]

CollectsPot ==
  /\ table.stage = "collect"
  /\ \E w \in table.live :
       /\ ReadCollected(TokenOf(w), Printed(Pot))
       /\ table' = [Logged(table, "collected", w, Pot) EXCEPT !.stage = "closing"]

\* The "-- ending hand --" line.
EndLine ==
  /\ table.stage = "closing"
  /\ ReadUnnamed
  /\ table' = [Logged(table, "end", None, 0) EXCEPT !.stage = "done"]

HandEnds ==
  /\ table.stage = "done"
  /\ FinishHand
  /\ table' = [Cleared(table) EXCEPT !.hands = Append(@, table.log)]

Init ==
  /\ g = NewStats
  /\ h = NewHand
  /\ hand_idx = 1
  /\ table = NewTable

Next ==
  \/ HandStarts
  \/ PostsSmallBlind
  \/ PostsBigBlind
  \/ PlayerFolds
  \/ PlayerChecks
  \/ PlayerCalls
  \/ PlayerBets
  \/ PlayerRaises
  \/ DealsStreet
  \/ ReturnsUncalled
  \/ ShowsCards
  \/ CollectsPot
  \/ EndLine
  \/ HandEnds

Spec == Init /\ [][Next]_vars

\* ---- any log ----
\* analyze_all_stats takes any list of hands, each a list of lines: here a
\* hand is any sequence of the lines the hand loop tells apart, by two
\* players, legal play or not.  table.acts counts the lines written and
\* table.stage tells whether the hand holds a line yet.

LineTokens == {<<"A", "x1">>, <<"B", "x2">>}
\* Every amount here is "0.00": the money fields stay out of the state, and
\* the roles, flags and counters this specification is for do not read them.
LineAmounts == {Decimal(0)}

CanWrite == table.acts < MaxLines

Written == table' = [Acted(table) EXCEPT !.stage = "lines"]

LineFlopMarker == CanWrite /\ ReadFlopMarker /\ Written

LineTurnMarker == CanWrite /\ ReadTurnMarker /\ Written

LineRiverMarker == CanWrite /\ ReadRiverMarker /\ Written

LineUnnamed == CanWrite /\ ReadUnnamed /\ Written

LineOtherNamed == CanWrite /\ Written /\ \E tok \in LineTokens : ReadOtherNamed(tok)

LineShows == CanWrite /\ Written /\ \E tok \in LineTokens : ReadShows(tok)

LineFold == CanWrite /\ Written /\ \E tok \in LineTokens : ReadFold(tok)

LineCheck == CanWrite /\ Written /\ \E tok \in LineTokens : ReadCheck(tok)

LineUncalled ==
  CanWrite /\ Written /\ \E tok \in LineTokens, txt \in LineAmounts : ReadUncalled(tok, txt)

LineBlind ==
  CanWrite /\ Written /\ \E tok \in LineTokens, txt \in LineAmounts : ReadBlind(tok, txt)

LineCall ==
  CanWrite /\ Written /\ \E tok \in LineTokens, txt \in LineAmounts : ReadCall(tok, txt)

LineBet ==
  CanWrite /\ Written /\ \E tok \in LineTokens, txt \in LineAmounts : ReadBet(tok, txt)

LineRaise ==
  CanWrite /\ Written /\ \E tok \in LineTokens, txt \in LineAmounts : ReadRaise(tok, txt)

LineCollected ==
  CanWrite /\ Written /\ \E tok \in LineTokens, txt \in LineAmounts : ReadCollected(tok, txt)

\* split_into_hands closes a hand only once it holds a line.
LineHandEnds ==
  /\ table.stage = "lines"
  /\ FinishHand
  /\ table' = [table EXCEPT !.stage = "start"]

NextLine ==
  \/ LineFlopMarker
  \/ LineTurnMarker
  \/ LineRiverMarker
  \/ LineUnnamed
  \/ LineOtherNamed
  \/ LineShows
  \/ LineFold
  \/ LineCheck
  \/ LineUncalled
  \/ LineBlind
  \/ LineCall
  \/ LineBet
  \/ LineRaise
  \/ LineCollected
  \/ LineHandEnds

SpecLines == Init /\ [][NextLine]_vars

\* ---- reading a hand's log ----

NameOf(e) == extract_player_name(e.tok)

\* Where the first line of a kind stands, or past the end when there is none.
MarkerAt(log, kind) ==
  IF \E i \in 1..Len(log) : log[i].kind = kind
  THEN CHOOSE i \in 1..Len(log) :
         log[i].kind = kind /\ \A j \in 1..(i - 1) : log[j].kind # kind
  ELSE Len(log) + 1

\* The lines of one street.
StreetPart(log, street) ==
  CASE street = "preflop" -> SubSeq(log, 1, MarkerAt(log, "flop") - 1)
    [] street = "flop" ->
         SubSeq(log, MarkerAt(log, "flop") + 1, MarkerAt(log, "turn") - 1)
    [] street = "turn" ->
         SubSeq(log, MarkerAt(log, "turn") + 1, MarkerAt(log, "river") - 1)
    [] street = "river" -> SubSeq(log, MarkerAt(log, "river") + 1, Len(log))

IsRaiseLine(e) == e.kind \in {"bet", "raise"}

\* The players who raised before the flop, in the order of their raises.
PreflopRaisers(log) ==
  LET r == SelectSeq(StreetPart(log, "preflop"), IsRaiseLine)
  IN [i \in 1..Len(r) |-> NameOf(r[i])]

\* a makes the first preflop raise, b then raises, a then folds, and nobody
\* else raises before the flop.
OpenThreeBetFold(log, a, b) ==
  LET pre == StreetPart(log, "preflop")
  IN /\ a # b
     /\ PreflopRaisers(log) = <<a, b>>
     /\ \E i \in 1..Len(pre) : pre[i].kind = "fold" /\ NameOf(pre[i]) = a

\* p checks on the street, another player then bets, p then raises.
CheckThenRaise(log, p, street) ==
  LET part == StreetPart(log, street)
  IN \E i, j, k \in 1..Len(part) :
       /\ i < j /\ j < k
       /\ part[i].kind = "check" /\ NameOf(part[i]) = p
       /\ part[j].kind = "bet" /\ NameOf(part[j]) # p
       /\ part[k].kind = "raise" /\ NameOf(part[k]) = p

\* The counters and trackers of one street.
CheckRaises(gg, street) ==
  CASE street = "flop" -> gg.cr_flop
    [] street = "turn" -> gg.cr_turn
    [] street = "river" -> gg.cr_river

Donks(gg, street) ==
  CASE street = "flop" -> gg.donk_flop
    [] street = "turn" -> gg.donk_turn
    [] street = "river" -> gg.donk_river

BetSeen(hh, street) ==
  CASE street = "flop" -> hh.flop_bet_seen
    [] street = "turn" -> hh.turn_bet_seen
    [] street = "river" -> hh.river_bet_seen

CbetDone(hh, street) ==
  CASE street = "flop" -> hh.flop_cbet_done
    [] street = "turn" -> hh.turn_cbet_done
    [] street = "river" -> hh.river_cbet_done

CbetBy(hh, street) ==
  CASE street = "flop" -> hh.flop_cbet_by
    [] street = "turn" -> hh.turn_cbet_by
    [] street = "river" -> hh.river_cbet_by

DonkCount(gg, street) == SumOver(Donks(gg, street), Names)

\* Donk bets recorded on the street so far plus c-bets recorded on it.
ClassifiedCount(gg, hh, street) ==
  DonkCount(gg, street) + B2N(CbetDone(hh, street))

\* ---- C1 ----

\* C1, as stated: for a hand in which A makes the first preflop raise, B then
\* raises and A then folds (no other raises), the hand's tally adds 1 to A's
\* open raises, 1 to A's 3-bet opportunities, 1 to A's folds to a 3-bet and 1
\* to B's 3-bets, and leaves B's 3-bet opportunities unchanged.
C1_AsStated ==
  [][table.stage = "done" =>
       \A a, b \in Names :
         OpenThreeBetFold(table.log, a, b) =>
           /\ g'.open_raise_hands[a] = g.open_raise_hands[a] + 1
           /\ g'.threebet_opp[a] = g.threebet_opp[a] + 1
           /\ g'.fold_to_3bet_hands[a] = g.fold_to_3bet_hands[a] + 1
           /\ g'.threebet_hands[b] = g.threebet_hands[b] + 1
           /\ g'.threebet_opp[b] = g.threebet_opp[b]]_vars

\* C1, amended: for such a hand the tally adds 1 to A's open raises, 1 to A's
\* 4-bet opportunities and 1 to A's folds to a 4-bet, leaves A's 3-bet
\* opportunities and folds to a 3-bet unchanged, and adds 1 to B's 3-bets and
\* 1 to B's 3-bet opportunities.
C1_OpenThreeBetFold ==
  [][table.stage = "done" =>
       \A a, b \in Names :
         OpenThreeBetFold(table.log, a, b) =>
           /\ g'.open_raise_hands[a] = g.open_raise_hands[a] + 1
           /\ g'.fourbet_opp[a] = g.fourbet_opp[a] + 1
           /\ g'.fold_to_4bet_hands[a] = g.fold_to_4bet_hands[a] + 1
           /\ g'.threebet_opp[a] = g.threebet_opp[a]
           /\ g'.fold_to_3bet_hands[a] = g.fold_to_3bet_hands[a]
           /\ g'.threebet_hands[b] = g.threebet_hands[b] + 1
           /\ g'.threebet_opp[b] = g.threebet_opp[b] + 1]_vars

\* A hand of that shape read to its end, the opener's fold on record.
C1_Witness ==
  /\ table.stage = "done"
  /\ \E a, b \in Names :
       /\ OpenThreeBetFold(table.log, a, b)
       /\ h.open_raiser = a /\ h.three_bettor = b
       /\ h.fold_to_4bet_this[a]

\* ---- C2 ----

\* C2, as stated: after any sequence of hands, a player with a 4-bet hand on
\* record has a 3-bet opportunity on record.
C2_AsStated ==
  \A p \in Names : g.fourbet_hands[p] > 0 => g.threebet_opp[p] > 0

\* C2, amended: after any sequence of hands, a player with a 4-bet hand on
\* record has a 4-bet opportunity on record; the 4-bet hands never exceed the
\* 4-bet opportunities.
C2_FourBetNeedsOpportunity ==
  \A p \in Names :
    /\ g.fourbet_hands[p] > 0 => g.fourbet_opp[p] > 0
    /\ g.fourbet_hands[p] <= g.fourbet_opp[p]

\* A 4-bet hand has been tallied.
C2_Witness == \E p \in Names : g.fourbet_hands[p] > 0

\* ---- C3 ----

\* C3: a 4-bet is credited to the hand's opener only: whenever the four_bettor
\* slot is set it holds the hand's open_raiser, and a hand's tally raises
\* fourbet_hands[p] only for the p that opened the hand.
C3_FourBetByOpener ==
  [][/\ h'.four_bettor # None => h'.four_bettor = h'.open_raiser
     /\ \A p \in Names :
          g'.fourbet_hands[p] > g.fourbet_hands[p] => p = h.open_raiser]_vars

\* A hand with a 4-bet has been tallied for its opener.
C3_Witness ==
  \E p \in Names : g.fourbet_hands[p] = 1 /\ g.open_raise_hands[p] = 1

\* ---- C4 ----

\* C4: within one hand the role slots are filled in order and written once:
\* three_bettor set implies open_raiser set, four_bettor set implies
\* three_bettor set, each slot holds one player or none, and a slot once set
\* keeps its player until the hand ends.
C4_RolesWriteOnce ==
  [][/\ h'.three_bettor # None => h'.open_raiser # None
     /\ h'.four_bettor # None => h'.three_bettor # None
     /\ {h'.open_raiser, h'.three_bettor, h'.four_bettor} \subseteq Names \cup {None}
     /\ hand_idx' = hand_idx =>
          /\ h.open_raiser # None => h'.open_raiser = h.open_raiser
          /\ h.three_bettor # None => h'.three_bettor = h.three_bettor
          /\ h.four_bettor # None => h'.four_bettor = h.four_bettor]_vars

\* All three slots filled, and the hand gone on to the flop.
C4_Witness ==
  /\ h.open_raiser # None /\ h.three_bettor # None /\ h.four_bettor # None
  /\ h.street = "flop"

\* ---- C5 ----

\* C5, as stated: for a complete rake-free hand whose collected amounts are
\* the chips put in the pot, the hand's net results (collected minus
\* invested) of all player records sum to 0, postflop raises included.
C5_AsStated ==
  (table.stage = "done" /\ SumOver(h.collected, Names) = Pot) =>
    SumOver([k \in Keys |-> HandNet(h, k)], Keys) = 0

\* ---- C6 ----

\* C6, as stated: an uncalled-bet return takes the returned amount off the
\* invested and contribution totals of the record the player's own lines
\* added to, the one under the display name.
C6_AsStated ==
  [][(Len(table'.log) = Len(table.log) + 1
      /\ table'.log[Len(table'.log)].kind = "uncalled") =>
       LET e == table'.log[Len(table'.log)]
           n == NameOf(e)
       IN /\ h'.invested[n] = h.invested[n] - e.cents
          /\ h'.total_contrib[n] = h.total_contrib[n] - e.cents]_vars

\* ---- C7 ----

\* C7: after any sequence of hands, every player's hands_played is at least
\* their saw_flop_hands, saw_turn_hands and saw_river_hands; within a hand a
\* player is marked as seeing a street only when marked as dealt in preflop.
C7_PlayedBoundsStreets ==
  \A p \in Names :
    /\ g.hands_played[p] >= g.saw_flop_hands[p]
    /\ g.hands_played[p] >= g.saw_turn_hands[p]
    /\ g.hands_played[p] >= g.saw_river_hands[p]
    /\ (h.saw_flop_this[p] \/ h.saw_turn_this[p] \/ h.saw_river_this[p])
         => h.saw_preflop[p]

\* A player has been tallied as seeing all three streets.
C7_Witness ==
  \E p \in Names :
    /\ g.saw_flop_hands[p] > 0
    /\ g.saw_turn_hands[p] > 0
    /\ g.saw_river_hands[p] > 0

\* ---- C8 ----

\* C8: after any sequence of hands, for every player and each of flop, turn
\* and river, the c-bets made never exceed the c-bet opportunities.
C8_CbetMadeWithinOpportunity ==
  \A p \in Names :
    /\ g.flop_cbet_hands[p] <= g.preflop_agg_flop_opp[p]
    /\ g.turn_cbet_hands[p] <= g.turn_cbet_opp[p]
    /\ g.river_cbet_hands[p] <= g.river_cbet_opp[p]

\* A c-bet has been tallied.
C8_Witness ==
  \E p \in Names :
    g.flop_cbet_hands[p] + g.turn_cbet_hands[p] + g.river_cbet_hands[p] > 0

\* ---- C9 ----

\* C9: in one hand and on one street at most one bet or raise is classified:
\* the donk bets recorded on the street plus the c-bets recorded on it grow
\* by at most one, only with the first bet of the street, never once the
\* street has seen a bet, and in the first hand (the counters starting at 0)
\* they never pass 1; the c-bet is attributed to one player, who stays.
C9_OneClassificationPerStreet ==
  [][\A s \in PostflopStreets :
       /\ hand_idx' = 1 => ClassifiedCount(g', h', s) <= 1
       /\ CbetDone(h', s) <=> CbetBy(h', s) \in Names
       /\ hand_idx' = hand_idx =>
            /\ DonkCount(g', s) >= DonkCount(g, s)
            /\ CbetDone(h, s) => CbetDone(h', s)
            /\ ClassifiedCount(g', h', s) - ClassifiedCount(g, h, s) \in {0, 1}
            /\ ClassifiedCount(g', h', s) > ClassifiedCount(g, h, s) =>
                 ~BetSeen(h, s) /\ BetSeen(h', s)
            /\ BetSeen(h, s) =>
                 /\ BetSeen(h', s)
                 /\ Donks(g', s) = Donks(g, s)
                 /\ CbetDone(h', s) = CbetDone(h, s)
                 /\ CbetBy(h', s) = CbetBy(h, s)]_vars

\* A street whose first bet was classified and which saw a second bet or raise.
C9_Witness ==
  /\ hand_idx = 1
  /\ ClassifiedCount(g, h, "flop") = 1
  /\ SumOver(h.aggr_postflop, Names) >= 2
  /\ h.street = "flop"

\* ---- C10 ----

\* C10, as stated: when a player checks on a postflop street, another player
\* then bets and the first player then raises, the player's check-raise
\* counter of that street grows by exactly 1 for the hand, however many more
\* raises the player makes on the street (in the first hand, the counters
\* starting at 0, it is 1).
C10_AsStated ==
  hand_idx = 1 =>
    \A p \in Names, s \in PostflopStreets :
      CheckThenRaise(table.log, p, s) => CheckRaises(g, s)[p] = 1

\* ---- C11 ----

\* The players who bet or raised on a street, in the order of those lines.
Aggressors(log, street) ==
  LET r == SelectSeq(StreetPart(log, street), IsRaiseLine)
  IN [i \in 1..Len(r) |-> NameOf(r[i])]

FoldedOn(log, street, p) ==
  LET part == StreetPart(log, street)
  IN \E i \in 1..Len(part) : part[i].kind = "fold" /\ NameOf(part[i]) = p

\* p made the last preflop raise, did not fold before the flop, and makes the
\* first bet or raise of the flop.
LastRaiserBetsFlop(log, p) ==
  LET pre == PreflopRaisers(log)
      flop == Aggressors(log, "flop")
  IN /\ pre # <<>> /\ pre[Len(pre)] = p
     /\ ~FoldedOn(log, "preflop", p)
     /\ flop # <<>> /\ flop[1] = p

\* The line just written is the first bet or raise of the flop.
FirstFlopBetWritten ==
  /\ Len(table'.log) = Len(table.log) + 1
  /\ Len(Aggressors(table'.log, "flop")) = 1
  /\ Aggressors(table.log, "flop") = <<>>

\* C11: when the last preflop raiser P is still in the hand at the flop and
\* makes the first bet or raise of the flop, processing that line records no
\* flop donk bet, and the hand adds exactly 1 to P's flop c-bet count and
\* exactly 1 to P's flop c-bet opportunity count.
C11_LastRaiserCbets ==
  [][\A p \in Names :
       /\ (FirstFlopBetWritten /\ LastRaiserBetsFlop(table'.log, p))
             => g'.donk_flop = g.donk_flop
       /\ (table.stage = "done" /\ hand_idx' = hand_idx + 1
             /\ LastRaiserBetsFlop(table.log, p))
             => /\ g'.flop_cbet_hands[p] = g.flop_cbet_hands[p] + 1
                /\ g'.preflop_agg_flop_opp[p] = g.preflop_agg_flop_opp[p] + 1
                /\ g'.donk_flop = g.donk_flop]_vars

\* A finished hand with two preflop raisers whose flop is opened by the last.
C11_Witness ==
  /\ table.stage = "done"
  /\ \E p \in Names : /\ LastRaiserBetsFlop(table.log, p)
                      /\ Len(PreflopRaisers(table.log)) = 2
                      /\ h.flop_cbet_by = p

\* ---- C12 ----

\* The bets and raises p made after the flop was dealt.
PostflopAggrLines(log, p) ==
  Cardinality({i \in (MarkerAt(log, "flop") + 1)..Len(log) :
                 IsRaiseLine(log[i]) /\ NameOf(log[i]) = p})

\* p called before the flop.
CalledPreflop(log, p) ==
  LET pre == StreetPart(log, "preflop")
  IN \E i \in 1..Len(pre) : pre[i].kind = "call" /\ NameOf(pre[i]) = p

\* C12: in a hand without a preflop raise no line records a flop donk bet,
\* and the hand leaves every flop c-bet opportunity and flop c-bet count
\* unchanged; every postflop bet or raise still counts as an aggressive action
\* of its player, and a limper who folds on the flop gets hands_played +1,
\* VPIP +1, saw_flop +1 and postflop folds +1.
C12_LimpedPot ==
  [][/\ PreflopRaisers(table'.log) = <<>> => g'.donk_flop = g.donk_flop
     /\ (table.stage = "done" /\ hand_idx' = hand_idx + 1
           /\ PreflopRaisers(table.log) = <<>>)
           => /\ g'.preflop_agg_flop_opp = g.preflop_agg_flop_opp
              /\ g'.flop_cbet_hands = g.flop_cbet_hands
              /\ g'.donk_flop = g.donk_flop
              /\ \A p \in Names :
                   /\ g'.af_aggr[p] = g.af_aggr[p] + PostflopAggrLines(table.log, p)
                   /\ (CalledPreflop(table.log, p) /\ FoldedOn(table.log, "flop", p))
                         => /\ g'.hands_played[p] = g.hands_played[p] + 1
                            /\ g'.vpip_hands[p] = g.vpip_hands[p] + 1
                            /\ g'.saw_flop_hands[p] = g.saw_flop_hands[p] + 1
                            /\ g'.af_folds[p] = g.af_folds[p] + 1]_vars

\* A finished limped hand whose flop was bet and made a limper fold.
C12_Witness ==
  /\ table.stage = "done"
  /\ PreflopRaisers(table.log) = <<>>
  /\ Aggressors(table.log, "flop") # <<>>
  /\ \E p \in Names : CalledPreflop(table.log, p) /\ FoldedOn(table.log, "flop", p)

\* ---- C13 ----

\* The step writes one more line of the hand.
LineWritten == Len(table'.log) = Len(table.log) + 1

WrittenLine == table'.log[Len(table'.log)]

\* The line just written is a line of p's own, before the flop was dealt.
OwnPreflopLine(p) ==
  /\ LineWritten
  /\ MarkerAt(table.log, "flop") > Len(table.log)
  /\ WrittenLine.kind \in {"start", "blind", "fold", "check", "call", "bet",
                           "raise", "shows", "collected"}
  /\ NameOf(WrittenLine) = p

\* C13: a player's 3-bet opportunity flag is set exactly by a preflop line of
\* theirs processed while an opener exists, no 3-bettor exists and they are
\* not the opener; the 4-bet opportunity flag exactly by a preflop line of
\* theirs processed while a 3-bettor exists, no 4-bettor exists and they are
\* the opener.  A preflop fold records fold-to-3bet (fold-to-4bet) exactly
\* when the flag is set at the fold and the player has not 3-bet (4-bet), and
\* no other line records it.
C13_OpportunityFlags ==
  [][LineWritten =>
       \A p \in Names :
         /\ h'.threebet_opp_this[p] <=>
               \/ h.threebet_opp_this[p]
               \/ /\ OwnPreflopLine(p)
                  /\ h.open_raiser # None /\ h.three_bettor = None
                  /\ p # h.open_raiser
         /\ h'.fourbet_opp_this[p] <=>
               \/ h.fourbet_opp_this[p]
               \/ /\ OwnPreflopLine(p)
                  /\ h.three_bettor # None /\ h.four_bettor = None
                  /\ p = h.open_raiser
         /\ IF OwnPreflopLine(p) /\ WrittenLine.kind = "fold"
            THEN /\ h'.fold_to_3bet_this[p] <=>
                       (h'.threebet_opp_this[p] /\ ~h.threebet_this[p])
                 /\ h'.fold_to_4bet_this[p] <=>
                       (h'.fourbet_opp_this[p] /\ ~h.fourbet_this[p])
            ELSE /\ h'.fold_to_3bet_this[p] = h.fold_to_3bet_this[p]
                 /\ h'.fold_to_4bet_this[p] = h.fold_to_4bet_this[p]]_vars

\* One player folded to the open raise, the 3-bettor folded to the 4-bet.
C13_Witness ==
  \E p, q \in Names :
    /\ p # q
    /\ h.fold_to_3bet_this[p]
    /\ h.threebet_this[q] /\ h.threebet_opp_this[q]
    /\ FoldedOn(table.log, "preflop", q) /\ ~h.fold_to_3bet_this[q]
    /\ h.fold_to_4bet_this[q] = FALSE
    /\ \E r \in Names : h.fourbet_opp_this[r] /\ h.fourbet_this[r]

\* ---- C14: the analysis as a function of its input ----

\* Variant: the counters of the previous call still there at entry.
LeftoverStats == g

\* The counters a call of analyze_all_stats starts from: the defaultdicts
\* are created inside the function.
EntryStats == NewStats

\* One entry of a hand processed: the branch of the loop body its text selects.
ProcessEntry(st, e, dotted) ==
  LET txt == [cents |-> e.cents, dotted |-> dotted]
      name == extract_player_name(e.tok)
      hp == Presence(st.h, name)
  IN CASE e.kind = "flop" -> [st EXCEPT !.h = FlopMarkerHand(st.h)]
       [] e.kind = "turn" -> [st EXCEPT !.h = TurnMarkerHand(st.h)]
       [] e.kind = "river" -> [st EXCEPT !.h = RiverMarkerHand(st.h)]
       [] e.kind = "uncalled" -> [st EXCEPT !.h = UncalledHand(st.h, e.tok, txt)]
       [] e.kind = "end" -> st
       [] e.kind = "start" -> [st EXCEPT !.h = hp]
       [] e.kind = "shows" ->
            [st EXCEPT !.h = Presence(ShowsHand(st.h, name), name)]
       [] e.kind = "blind" -> [st EXCEPT !.h = BlindHand(hp, name, txt)]
       [] e.kind = "fold" -> [st EXCEPT !.h = FoldHand(hp, name)]
       [] e.kind = "check" -> [st EXCEPT !.h = CheckHand(hp, name)]
       [] e.kind = "call" ->
            [h |-> CallHand(hp, name, txt), g |-> CallStats(st.g, hp, name, txt)]
       [] e.kind = "bet" ->
            [h |-> BetHand(hp, name, txt), g |-> BetStats(st.g, hp, name, txt)]
       [] e.kind = "raise" ->
            [h |-> RaiseHand(hp, name, txt), g |-> RaiseStats(st.g, hp, name, txt)]
       [] e.kind = "collected" ->
            [st EXCEPT !.h = CollectedHand(hp, name, txt)]

\* for entry in hand: ...
RECURSIVE ProcessEntries(_, _, _)
ProcessEntries(st, hand, dotted) ==
  IF hand = <<>> THEN st
  ELSE ProcessEntries(ProcessEntry(st, Head(hand), dotted), Tail(hand), dotted)

\* Variant: the street reached by a hand still current when the next begins.
RECURSIVE CarryHands(_, _, _, _)
CarryHands(gg, hh, hands, dotted) ==
  IF hands = <<>> THEN gg
  ELSE LET st == ProcessEntries([g |-> gg, h |-> hh], Head(hands), dotted)
       IN CarryHands(Tally(st.g, st.h), [NewHand EXCEPT !.street = st.h.street],
                     Tail(hands), dotted)

ProcessHandsKeepingStreet(gg, hands, dotted) ==
  CarryHands(gg, NewHand, hands, dotted)

\* for hand_idx, hand in enumerate(hands, start=1): fresh trackers, the
\* entries, the post-processing.
RECURSIVE ProcessHands(_, _, _)
ProcessHands(gg, hands, dotted) ==
  IF hands = <<>> THEN gg
  ELSE LET st == ProcessEntries([g |-> gg, h |-> NewHand], Head(hands), dotted)
       IN ProcessHands(Tally(st.g, st.h), Tail(hands), dotted)

\* The counters analyze_all_stats returns its rows from.
analyze_all_stats(hands, dotted) == ProcessHands(EntryStats, hands, dotted)

\* The caller analyses the hands read so far a second time.
AnalyzeAgain ==
  /\ table.stage = "start"
  /\ table.hands # <<>>
  /\ g' = analyze_all_stats(table.hands, table.dotted)
  /\ h' = NewHand
  /\ hand_idx' = Len(table.hands) + 1
  /\ table' = [table EXCEPT !.stage = "again"]

NextAgain ==
  \/ HandStarts
  \/ PostsSmallBlind
  \/ PostsBigBlind
  \/ PlayerFolds
  \/ PlayerChecks
  \/ PlayerCalls
  \/ PlayerBets
  \/ PlayerRaises
  \/ DealsStreet
  \/ ReturnsUncalled
  \/ ShowsCards
  \/ CollectsPot
  \/ EndLine
  \/ HandEnds
  \/ AnalyzeAgain

SpecAgain == Init /\ [][NextAgain]_vars

Rows ==
  { [start |-> s, text |-> t] : s \in BOOLEAN, t \in {"one", "two"} }

\* "-- starting hand #" in entry
IsHandStart(entry) == entry.start

\* Variant: the current hand appended whether or not it has entries.
CloseHandAlways(hands, current) == Append(hands, current)

\* if current: hands.append(current)
CloseHand(hands, current) ==
  IF current # <<>> THEN Append(hands, current) ELSE hands

\* hands = []; current = []
SplitInit ==
  /\ g = NewStats
  /\ h = NewHand
  /\ hand_idx = 1
  /\ \E n \in 0..MaxRows :
       \E rows \in [1..n -> Rows] :
         table = [stage |-> "split", rows |-> rows, pos |-> 1,
                  current |-> <<>>, hands |-> <<>>]

\* for _, row in df.iterrows(): one row
SplitRow ==
  /\ table.stage = "split"
  /\ table.pos <= Len(table.rows)
  /\ LET entry == table.rows[table.pos]
         hands == IF IsHandStart(entry)
                  THEN CloseHand(table.hands, table.current)
                  ELSE table.hands
         current == IF IsHandStart(entry) THEN <<>> ELSE table.current
     IN table' = [table EXCEPT !.hands = hands,
                               !.current = Append(current, entry),
                               !.pos = @ + 1]
  /\ UNCHANGED <<g, h, hand_idx>>

\* if current: hands.append(current); return hands
SplitReturn ==
  /\ table.stage = "split"
  /\ table.pos = Len(table.rows) + 1
  /\ table' = [table EXCEPT !.hands = CloseHand(table.hands, table.current),
                            !.current = <<>>,
                            !.stage = "returned"]
  /\ UNCHANGED <<g, h, hand_idx>>

NextSplit ==
  \/ SplitRow
  \/ SplitReturn

SpecSplit == SplitInit /\ [][NextSplit]_vars

RECURSIVE Concat(_)
Concat(seqs) == IF seqs = <<>> THEN <<>> ELSE Head(seqs) \o Concat(Tail(seqs))

\* C15: the hands returned, concatenated in order, are the input entries in
\* input order; every hand has an entry; a hand-start line stands only first
\* in a hand; every hand but possibly the first begins with a hand-start line.
C15_SplitPartitions ==
  table.stage = "returned" =>
    /\ Concat(table.hands) = table.rows
    /\ \A i \in 1..Len(table.hands) :
         /\ table.hands[i] # <<>>
         /\ \A j \in 2..Len(table.hands[i]) : ~IsHandStart(table.hands[i][j])
         /\ i > 1 => IsHandStart(table.hands[i][1])

\* Lines before the first hand-start line, two hands after them, the last
\* with a trailing line.
C15_Witness ==
  /\ table.stage = "returned"
  /\ Len(table.hands) = 3
  /\ ~IsHandStart(table.hands[1][1])
  /\ Len(table.hands[3]) = 2

\* ---- C16: a log whose amounts have no decimal point ----

\* The same game, its amounts printed as whole numbers ("calls 20"), which
\* the patterns [0-9]+\.[0-9]+ do not match.
InitWhole ==
  /\ g = NewStats
  /\ h = NewHand
  /\ hand_idx = 1
  /\ table = [NewTable EXCEPT !.dotted = FALSE]

SpecWhole == InitWhole /\ [][Next]_vars

\* C16 as stated: a call, bet or raise line whose amount cannot be parsed
\* leaves the money trackers alone but is still processed for flags and
\* roles: before the flop it sets VPIP (and, for a bet or raise, PFR and a
\* role slot), after the flop it counts as a call or as an aggressive action.
C16_AsStated ==
  [][(LineWritten /\ WrittenLine.kind \in {"call", "bet", "raise"}
        /\ ~AmountMatches(Printed(WrittenLine.cents)))
       => LET p == NameOf(WrittenLine)
          IN /\ h'.invested = h.invested
             /\ h'.total_contrib = h.total_contrib
             /\ IF h.street = "preflop"
                THEN /\ h'.vpip_this[p]
                     /\ WrittenLine.kind # "call" =>
                          h'.pfr_this[p] /\ h'.open_raiser # None
                ELSE IF WrittenLine.kind = "call"
                     THEN h'.calls_postflop[p] = h.calls_postflop[p] + 1
                     ELSE h'.aggr_postflop[p] = h.aggr_postflop[p] + 1]_vars

\* ---- C17 ----

StreetRank(street) ==
  CASE street = "preflop" -> 0
    [] street = "flop" -> 1
    [] street = "turn" -> 2
    [] street = "river" -> 3

\* The streets the hand has been in so far.
Entered(hh) ==
  {"preflop"} \cup (IF hh.any_flop THEN {"flop"} ELSE {})
              \cup (IF hh.any_turn THEN {"turn"} ELSE {})
              \cup (IF hh.any_river THEN {"river"} ELSE {})

\* C17 as stated: within a hand, processing an entry never moves the street
\* to an earlier street and never moves it to a street already entered.
C17_AsStated ==
  [][hand_idx' = hand_idx =>
       /\ StreetRank(h'.street) >= StreetRank(h.street)
       /\ h'.street # h.street => h'.street \notin Entered(h)]_vars

\* ---- C18 ----

\* The kinds of p's own lines before the flop, in order.
OwnPreflopKinds(log, p) ==
  LET own(e) == /\ e.kind \in {"blind", "fold", "check", "call", "bet", "raise",
                               "shows", "collected"}
                /\ NameOf(e) = p
      lines == SelectSeq(StreetPart(log, "preflop"), own)
  IN [i \in 1..Len(lines) |-> lines[i].kind]

\* p posted a blind and then only checked or folded before the flop.
BlindThenCheckOrFold(log, p) ==
  OwnPreflopKinds(log, p) \in {<<"blind", "check">>, <<"blind", "fold">>}

\* C18: a blind post adds its amount to the player's invested total and marks
\* them dealt in, and leaves VPIP, PFR, the limp and call-open counters and
\* the opener / 3-bettor / 4-bettor slots as they were; a player whose preflop
\* lines are a blind post followed by a check or a fold ends the hand with
\* hands_played +1 and VPIP +0.
C18_BlindIsNotVoluntary ==
  [][/\ (LineWritten /\ WrittenLine.kind = "blind") =>
          LET p == NameOf(WrittenLine)
          IN /\ h'.invested[p] = h.invested[p] + WrittenLine.cents
             /\ h'.saw_preflop[p]
             /\ h'.vpip_this = h.vpip_this
             /\ h'.pfr_this = h.pfr_this
             /\ g'.limp_hands = g.limp_hands
             /\ g'.call_open_hands = g.call_open_hands
             /\ h'.open_raiser = h.open_raiser
             /\ h'.three_bettor = h.three_bettor
             /\ h'.four_bettor = h.four_bettor
     /\ (table.stage = "done" /\ hand_idx' = hand_idx + 1) =>
          \A p \in Names :
            BlindThenCheckOrFold(table.log, p) =>
              /\ g'.hands_played[p] = g.hands_played[p] + 1
              /\ g'.vpip_hands[p] = g.vpip_hands[p]]_vars

\* A finished hand in which one blind folded and the other checked its option.
C18_Witness ==
  /\ table.stage = "done"
  /\ \E p, q \in Names :
       /\ OwnPreflopKinds(table.log, p) = <<"blind", "fold">>
       /\ OwnPreflopKinds(table.log, q) = <<"blind", "check">>
       /\ h.invested[p] > 0

\* ---- C19 ----

\* p was dealt in and has folded: only a fold takes a player out of the
\* active set, and every line that deals a player in also puts them into it.
HasFolded(hh, p) == hh.saw_preflop[p] /\ p \notin hh.active

\* C19 as stated: a player who has folded is not put back into the active set
\* by any later entry of the hand, and is not marked as having seen a street
\* whose marker is processed after the fold.
C19_AsStated ==
  [][hand_idx' = hand_idx =>
       \A p \in Names :
         HasFolded(h, p) =>
           /\ p \notin h'.active
           /\ h'.saw_flop_this[p] = h.saw_flop_this[p]
           /\ h'.saw_turn_this[p] = h.saw_turn_this[p]
           /\ h'.saw_river_this[p] = h.saw_river_this[p]]_vars

\* ---- C20 ----

\* The hand is being tallied.
HandTallied == table.stage = "done" /\ hand_idx' = hand_idx + 1

Dealt(log, street) == MarkerAt(log, street) <= Len(log)

\* What the tally adds to p's c-bet opportunities and c-bets of a street.
CbetOppAdded(street, p) ==
  CASE street = "turn" -> g'.turn_cbet_opp[p] - g.turn_cbet_opp[p]
    [] street = "river" -> g'.river_cbet_opp[p] - g.river_cbet_opp[p]

CbetAdded(street, p) ==
  CASE street = "turn" -> g'.turn_cbet_hands[p] - g.turn_cbet_hands[p]
    [] street = "river" -> g'.river_cbet_hands[p] - g.river_cbet_hands[p]

PreviousStreet(street) ==
  CASE street = "turn" -> "flop"
    [] street = "river" -> "turn"

\* With ref the player of the previous street carried into the street as
\* reference: the opportunity is counted for ref, unless ref folded before
\* the street was dealt, and for nobody else, and a c-bet is counted exactly
\* when the first bet or raise of the street is ref's.
AttributedTo(log, street, ref) ==
  LET here == Aggressors(log, street)
  IN \A p \in Names :
       /\ CbetOppAdded(street, p) =
             B2N(p = ref /\ ~FoldedOn(log, PreviousStreet(street), p))
       /\ CbetAdded(street, p) = B2N(p = ref /\ here # <<>> /\ here[1] = p)

First(seq) == seq[1]

Last(seq) == seq[Len(seq)]

\* C20 as stated: the reference carried into the turn (river) is the first
\* player to bet or raise on the flop (turn).
C20_AsStated ==
  [][HandTallied =>
       /\ (Dealt(table.log, "turn") /\ Aggressors(table.log, "flop") # <<>>)
            => AttributedTo(table.log, "turn", First(Aggressors(table.log, "flop")))
       /\ (Dealt(table.log, "river") /\ Aggressors(table.log, "turn") # <<>>)
            => AttributedTo(table.log, "river", First(Aggressors(table.log, "turn")))]_vars

\* C20: the reference carried into the turn (river) is the last player to bet
\* or raise on the flop (turn): the turn (river) c-bet opportunity is counted
\* for that player, and the first turn (river) bet is a c-bet exactly when
\* that player makes it.
C20_LastAggressorCarried ==
  [][HandTallied =>
       /\ (Dealt(table.log, "turn") /\ Aggressors(table.log, "flop") # <<>>)
            => AttributedTo(table.log, "turn", Last(Aggressors(table.log, "flop")))
       /\ (Dealt(table.log, "river") /\ Aggressors(table.log, "turn") # <<>>)
            => AttributedTo(table.log, "river", Last(Aggressors(table.log, "turn")))]_vars

\* A finished hand whose flop was bet by one player and raised by another,
\* and whose turn was opened by the raiser.
C20_Witness ==
  /\ table.stage = "done"
  /\ Dealt(table.log, "turn")
  /\ LET flop == Aggressors(table.log, "flop")
         turn == Aggressors(table.log, "turn")
     IN /\ Len(flop) >= 2 /\ First(flop) # Last(flop)
        /\ turn # <<>> /\ First(turn) = Last(flop)
        /\ h.turn_cbet_by = Last(flop)

\* ---- C21 ----

\* The line just written is a preflop bet or raise of p that comes after a
\* 3-bettor exists and is not the opener's, or comes after a 4-bettor exists.
RaiseBeyondRoles(p) ==
  /\ OwnPreflopLine(p)
  /\ IsRaiseLine(WrittenLine)
  /\ \/ h.three_bettor # None /\ p # h.open_raiser
     \/ h.four_bettor # None

\* C21: a preflop bet or raise made after a 3-bettor exists by a player who
\* is not the opener, or after a 4-bettor exists by anyone, leaves the opener,
\* 3-bettor and 4-bettor slots and every 3-bet and 4-bet flag as they were,
\* sets the raiser's VPIP and PFR and makes the raiser the last preflop
\* raiser; the flop marker snapshots the last preflop raiser as the flop
\* c-bet reference.
C21_RaiseBeyondRoles ==
  [][/\ \A p \in Names :
          RaiseBeyondRoles(p) =>
            /\ h'.open_raiser = h.open_raiser
            /\ h'.three_bettor = h.three_bettor
            /\ h'.four_bettor = h.four_bettor
            /\ h'.threebet_this = h.threebet_this
            /\ h'.fourbet_this = h.fourbet_this
            /\ h'.open_raise_this = h.open_raise_this
            /\ h'.vpip_this[p] /\ h'.pfr_this[p]
            /\ Last(h'.preflop_raises_seq) = p
     /\ (LineWritten /\ WrittenLine.kind = "flop"
           /\ PreflopRaisers(table.log) # <<>>)
          => h'.preflop_agg = Last(PreflopRaisers(table.log))]_vars

\* The flop is dealt after a raise by a player who holds none of the three
\* roles, and that player is the flop reference.
C21_Witness ==
  /\ h.street = "flop"
  /\ h.four_bettor = None /\ h.three_bettor # None
  /\ h.preflop_agg \in Names
  /\ h.preflop_agg \notin {h.open_raiser, h.three_bettor}
  /\ h.pfr_this[h.preflop_agg] /\ ~h.threebet_this[h.preflop_agg]
  /\ ~h.fourbet_this[h.preflop_agg]

\* ---- C22 ----

\* Before the flop some player other than the first raiser called after the
\* first raise and before any second raise.
CalledTheOpen(log) ==
  LET pre == StreetPart(log, "preflop")
  IN \E i, j \in 1..Len(pre) :
       /\ i < j
       /\ IsRaiseLine(pre[i])
       /\ \A k \in 1..(j - 1) : IsRaiseLine(pre[k]) => k = i
       /\ pre[j].kind = "call"
       /\ NameOf(pre[j]) # NameOf(pre[i])

\* C22: a squeeze is recorded only on the line by which a player becomes the
\* hand's 3-bettor, for that player, once, and only if that player is not the
\* opener and a player other than the opener called after the open and before
\* any 3-bet; the 3-bettor slot is not written again in the hand, so at most
\* one squeeze is recorded per hand, and a player's squeeze count never
\* exceeds their 3-bet count, the 3-bet of the current hand included.
C22_SqueezeIsAThreeBet ==
  [][/\ \A p \in Names :
          /\ g'.squeeze_hands[p] - g.squeeze_hands[p] \in {0, 1}
          /\ g'.squeeze_hands[p] # g.squeeze_hands[p] =>
               /\ OwnPreflopLine(p) /\ IsRaiseLine(WrittenLine)
               /\ h.three_bettor = None /\ h'.three_bettor = p
               /\ h'.threebet_this[p]
               /\ p # h.open_raiser /\ h.open_raiser # None
               /\ CalledTheOpen(table.log)
               /\ \A q \in Names \ {p} : g'.squeeze_hands[q] = g.squeeze_hands[q]
          /\ g'.squeeze_hands[p] <= g'.threebet_hands[p] + B2N(h'.threebet_this[p])
     /\ (hand_idx' = hand_idx /\ h.three_bettor # None)
          => h'.three_bettor = h.three_bettor]_vars

\* A squeeze has been recorded in the hand and tallied as a 3-bet.
C22_Witness ==
  \E p \in Names :
    /\ g.squeeze_hands[p] = 1 /\ g.threebet_hands[p] = 1
    /\ hand_idx = 2 /\ table.stage = "start"
    /\ CalledTheOpen(Last(table.hands))

\* ---- C23 ----

\* C23 as stated: after any sequence of hands no player has more 3-bet hands
\* than 3-bet opportunities.
C23_AsStated ==
  \A p \in Names : g.threebet_hands[p] <= g.threebet_opp[p]

\* ---- C24 ----

\* C24: after any sequence of hands, and at any point of a hand, every player
\* has at most as many preflop-raise hands as VPIP hands, and at most as many
\* VPIP hands as hands played.
C24_PfrWithinVpipWithinPlayed ==
  \A p \in Names :
    /\ g.pfr_hands[p] <= g.vpip_hands[p]
    /\ g.vpip_hands[p] <= g.hands_played[p]

\* Tallied hands in which one player raised before the flop, another only
\* called, and one was dealt in without putting money in voluntarily.
C24_Witness ==
  /\ h = NewHand
  /\ \E p \in Names : g.pfr_hands[p] > 0
  /\ \E p \in Names : g.vpip_hands[p] > g.pfr_hands[p]
  /\ \E p \in Names : g.hands_played[p] > g.vpip_hands[p]

\* ---- C25 ----

\* The hand has a show line of k.
Showed(log, k) ==
  \E i \in 1..Len(log) :
    log[i].kind = "shows" /\ log[i].tok # None /\ NameOf(log[i]) = k

\* C25: for every record the showdown and non-showdown profits add up to the
\* net profit; a hand adds its net result for the record to exactly one of
\* the two, to the showdown profit exactly when the hand has a show line of
\* that player.
C25_ProfitSplit ==
  [][\A k \in Keys :
       /\ g'.sd_profit[k] + g'.nonsd_profit[k] = g'.net_profit[k]
       /\ HandTallied =>
            LET delta == g'.net_profit[k] - g.net_profit[k]
                sd == g'.sd_profit[k] - g.sd_profit[k]
                nonsd == g'.nonsd_profit[k] - g.nonsd_profit[k]
            IN /\ delta = HandNet(h, k)
               /\ IF Showed(table.log, k)
                  THEN sd = delta /\ nonsd = 0
                  ELSE sd = 0 /\ nonsd = delta]_vars

\* A hand shown down has been tallied: a player who showed and a player who
\* folded both have a result, in different splits.
C25_Witness ==
  /\ table.stage = "start" /\ hand_idx = 2
  /\ \E p, q \in Names :
       /\ Showed(Last(table.hands), p) /\ g.sd_profit[p] # 0
       /\ g.nonsd_profit[p] = 0
       /\ ~Showed(Last(table.hands), q) /\ g.nonsd_profit[q] < 0
       /\ g.sd_profit[q] = 0

\* ---- C26: hands analysed in another order ----

\* The hands in the order perm gives.
Reordered(hands, perm) == [i \in 1..Len(hands) |-> hands[perm[i]]]

\* The caller analyses the hands read so far in some other order.
AnalyzeReordered ==
  /\ table.stage = "start"
  /\ Len(table.hands) >= 2
  /\ \E perm \in Permutations(1..Len(table.hands)) :
       g' = analyze_all_stats(Reordered(table.hands, perm), table.dotted)
  /\ h' = NewHand
  /\ hand_idx' = Len(table.hands) + 1
  /\ table' = [table EXCEPT !.stage = "reordered"]

NextReordered ==
  \/ HandStarts
  \/ PostsSmallBlind
  \/ PostsBigBlind
  \/ PlayerFolds
  \/ PlayerChecks
  \/ PlayerCalls
  \/ PlayerBets
  \/ PlayerRaises
  \/ DealsStreet
  \/ ReturnsUncalled
  \/ ShowsCards
  \/ CollectsPot
  \/ EndLine
  \/ HandEnds
  \/ AnalyzeReordered

SpecReordered == Init /\ [][NextReordered]_vars

\* Counters added record by record.
PlusStats(a, b) ==
  [f \in DOMAIN a |-> [k \in DOMAIN a[f] |-> a[f][k] + b[f][k]]]

\* C26: every hand starts from fresh trackers; the counters after a hand are
\* those of the hands before it plus what the analysis of that hand alone
\* returns; and the analysis of the same hands in any other order returns the
\* same counters.
C26_HandsAreIndependent ==
  [][/\ HandTallied =>
          /\ h' = NewHand
          /\ g' = PlusStats(analyze_all_stats(table.hands, table.dotted),
                            analyze_all_stats(<<table.log>>, table.dotted))
     /\ table'.stage = "reordered" => g' = g]_vars

\* Three different hands that moved counters have been analysed in another
\* order.
C26_Witness ==
  /\ table.stage = "reordered"
  /\ Len(table.hands) = 3
  /\ table.hands[1] # table.hands[2]
  /\ \E p \in Names : g.pfr_hands[p] > 0
  /\ \E p \in Names : g.saw_flop_hands[p] > 0

====
